---- MODULE Spec2Model ----
(***************************************************************************)
(* A model of roadarg's ArgParser (src/src/roadarg/arg.py): building a     *)
(* schema with add_argument / add_positional and parsing an argument       *)
(* vector with parse().  Strings are sequences of one-character strings,   *)
(* so that startswith, slicing and split("=", 1) are computed as the code  *)
(* computes them.  Python values are tagged records [t, v].                *)
(***************************************************************************)
EXTENDS Integers, Sequences, FiniteSets, TLC

----------------------------------------------------------------------------
(* Python values *)

None == [t |-> "none", v |-> 0]
PyBool(b) == [t |-> "bool", v |-> b]
PyInt(n) == [t |-> "int", v |-> n]
PyStr(s) == [t |-> "str", v |-> s]
PyList(q) == [t |-> "list", v |-> q]

\* bool is a subclass of int: True == 1, False == 0
IsNum(x) == x.t \in {"bool", "int"}
Num(x) == IF x.t = "bool" THEN (IF x.v THEN 1 ELSE 0) ELSE x.v

\* Python's == on the values above
PyEq(x, y) ==
    IF IsNum(x) /\ IsNum(y) THEN Num(x) = Num(y)
    ELSE x.t = y.t /\ x.v = y.v

\* Python's truth value of an object
Truthy(x) ==
    CASE x.t = "none" -> FALSE
      [] x.t = "bool" -> x.v
      [] x.t = "int" -> x.v # 0
      [] x.t = "str" -> Len(x.v) > 0
      [] x.t = "list" -> Len(x.v) > 0

\* `value in choices` / `value not in choices` for a list of choices
InChoices(value, choices) == \E k \in 1..Len(choices) : PyEq(choices[k], value)

----------------------------------------------------------------------------
(* Strings *)

StartsWith(s, p) == Len(s) >= Len(p) /\ SubSeq(s, 1, Len(p)) = p

\* index of the first occurrence of character c in s, 0 when there is none
RECURSIVE FindChar(_, _, _)
FindChar(s, c, k) ==
    IF k > Len(s) THEN 0
    ELSE IF s[k] = c THEN k
    ELSE FindChar(s, c, k + 1)

Digits == {"0", "1", "2"}
DigitVal(c) == CASE c = "0" -> 0 [] c = "1" -> 1 [] c = "2" -> 2

RECURSIVE DecVal(_)
DecVal(s) == IF Len(s) = 0 THEN 0
             ELSE 10 * DecVal(SubSeq(s, 1, Len(s) - 1)) + DigitVal(s[Len(s)])

AllDigits(s) == Len(s) > 0 /\ \A k \in 1..Len(s) : s[k] \in Digits

\* int(s) on strings of the characters the tokens below are made of (no
\* blanks, no underscores): an optional sign, then one or more digits
IntWellFormed(s) ==
    \/ AllDigits(s)
    \/ Len(s) > 1 /\ s[1] \in {"-", "+"} /\ AllDigits(Tail(s))
IntVal(s) ==
    IF s[1] = "-" THEN 0 - DecVal(Tail(s))
    ELSE IF s[1] = "+" THEN DecVal(Tail(s))
    ELSE DecVal(s)

\* str.lower() on the characters the model uses
LowerChar(c) == CASE c = "O" -> "o" [] c = "N" -> "n" [] OTHER -> c
Lower(s) == [k \in 1..Len(s) |-> LowerChar(s[k])]

TruthyStrings == { <<"t", "r", "u", "e">>, <<"1">>, <<"y", "e", "s">>, <<"o", "n">> }

\* _convert for the types str, int and bool: [ok |-> TRUE, val |-> v], or
\* ok = FALSE when typ(value) raises ValueError
Convert(value, typ) ==
    IF typ = "bool" THEN [ok |-> TRUE, val |-> PyBool(Lower(value) \in TruthyStrings)]
    ELSE IF typ = "int" THEN
        IF IntWellFormed(value) THEN [ok |-> TRUE, val |-> PyInt(IntVal(value))]
        ELSE [ok |-> FALSE, val |-> None]
    ELSE [ok |-> TRUE, val |-> PyStr(value)]

----------------------------------------------------------------------------
(* Schema *)

NoValueActions == {"store_true", "store_false", "count"}

Arg(name, short, type, default, required, choices, nargs, action, dest) ==
    [name |-> name, short |-> short, type |-> type, default |-> default,
     required |-> required, choices |-> choices, nargs |-> nargs,
     action |-> action, dest |-> dest]

Positional(name, type, nargs, default, choices) ==
    [name |-> name, type |-> type, nargs |-> nargs, default |-> default,
     choices |-> choices]

Empty == << >>
HelpName == <<"h", "e", "l", "p">>

\* the flag _add_help registers
HelpArg == Arg(HelpName, <<"h">>, "str", None, FALSE, Empty, Empty, "store_true", Empty)

\* dest = arg.dest or arg.name
Dest(arg) == IF Len(arg.dest) > 0 THEN arg.dest ELSE arg.name

----------------------------------------------------------------------------
(* Dictionaries *)

EmptyDict == [x \in {} |-> None]
Put(d, k, val) == [x \in (DOMAIN d) \cup {k} |-> IF x = k THEN val ELSE d[x]]
\* dict.get(k, dflt)
Get(d, k, dflt) == IF k \in DOMAIN d THEN d[k] ELSE dflt

MinOf(S) == CHOOSE k \in S : \A m \in S : k <= m

----------------------------------------------------------------------------
(* Helpers of parse.  `arguments` is the list of Arg, `args` the argument  *)
(* vector; indices i, j and pos_idx are the code's 0-based indices.        *)

\* _find_arg: the position of the first flag whose name or dest equals
\* `name`, 0 for None
FindArg(arguments, name) ==
    LET hits == {k \in 1..Len(arguments) :
                    arguments[k].name = name \/ arguments[k].dest = name}
    IN IF hits = {} THEN 0 ELSE MinOf(hits)

\* _find_arg_short: the position of the first flag whose short is the
\* character `short`, 0 for None
FindArgShort(arguments, short) ==
    LET hits == {k \in 1..Len(arguments) : arguments[k].short = <<short>>}
    IN IF hits = {} THEN 0 ELSE MinOf(hits)

\* DefaultOf without the branch for count
DefaultOfCountUnset(arg) ==
    CASE arg.action = "store_true" -> PyBool(FALSE)
      [] arg.action = "store_false" -> PyBool(TRUE)
      [] OTHER -> arg.default

\* the value _apply_defaults writes for a flag
DefaultOf(arg) ==
    CASE arg.action = "store_true" -> PyBool(FALSE)
      [] arg.action = "store_false" -> PyBool(TRUE)
      [] arg.action = "count" -> PyInt(0)
      [] OTHER -> arg.default

\* _apply_defaults, flags k..Len(arguments) onto the dictionary d
RECURSIVE ApplyDefaultsFrom(_, _, _)
ApplyDefaultsFrom(arguments, k, d) ==
    IF k > Len(arguments) THEN d
    ELSE ApplyDefaultsFrom(arguments, k + 1,
                           Put(d, Dest(arguments[k]), DefaultOf(arguments[k])))

ApplyDefaults(arguments) == ApplyDefaultsFrom(arguments, 1, EmptyDict)

\* an optional raw string: the `value` parse hands to _process_arg
NoValue == [some |-> FALSE, v |-> Empty]
Inline(s) == [some |-> TRUE, v |-> s]

\* ProcessArg with nargs "?" falling back to the default only at the end of
\* the input: a next token starting with "-" is taken as the value
ProcessArgOptTakesDash(arg_def, args, i, value) ==
    IF arg_def.action \in NoValueActions THEN
        [err |-> "none", i |-> i, value |-> None]
    ELSE IF ~value.some THEN
        IF arg_def.nargs = <<"?">> /\ i + 1 >= Len(args) THEN
            [err |-> "none", i |-> i, value |-> arg_def.default]
        ELSE IF i + 1 >= Len(args) THEN
            [err |-> "MissingValue", i |-> i, value |-> None]
        ELSE
            LET c == Convert(args[i + 2], arg_def.type)
            IN [err |-> IF c.ok THEN "none" ELSE "ValueError",
                i |-> i + 1, value |-> c.val]
    ELSE
        LET c == Convert(value.v, arg_def.type)
        IN [err |-> IF c.ok THEN "none" ELSE "ValueError",
            i |-> i, value |-> c.val]

\* ProcessArg refusing a next token that starts with "-" as a value
ProcessArgRefusesDash(arg_def, args, i, value) ==
    IF arg_def.action \in NoValueActions THEN
        [err |-> "none", i |-> i, value |-> None]
    ELSE IF ~value.some THEN
        IF arg_def.nargs = <<"?">>
           /\ (i + 1 >= Len(args) \/ StartsWith(args[i + 2], <<"-">>)) THEN
            [err |-> "none", i |-> i, value |-> arg_def.default]
        ELSE IF i + 1 >= Len(args) \/ StartsWith(args[i + 2], <<"-">>) THEN
            [err |-> "MissingValue", i |-> i, value |-> None]
        ELSE
            LET c == Convert(args[i + 2], arg_def.type)
            IN [err |-> IF c.ok THEN "none" ELSE "ValueError",
                i |-> i + 1, value |-> c.val]
    ELSE
        LET c == Convert(value.v, arg_def.type)
        IN [err |-> IF c.ok THEN "none" ELSE "ValueError",
            i |-> i, value |-> c.val]

\* _process_arg: [err, i, value]; err is "none" when it returns (i, value)
ProcessArg(arg_def, args, i, value) ==
    IF arg_def.action \in NoValueActions THEN
        [err |-> "none", i |-> i, value |-> None]
    ELSE IF ~value.some THEN
        IF arg_def.nargs = <<"?">>
           /\ (i + 1 >= Len(args) \/ StartsWith(args[i + 2], <<"-">>)) THEN
            [err |-> "none", i |-> i, value |-> arg_def.default]
        ELSE IF i + 1 >= Len(args) THEN
            [err |-> "MissingValue", i |-> i, value |-> None]
        ELSE
            LET c == Convert(args[i + 2], arg_def.type)
            IN [err |-> IF c.ok THEN "none" ELSE "ValueError",
                i |-> i + 1, value |-> c.val]
    ELSE
        LET c == Convert(value.v, arg_def.type)
        IN [err |-> IF c.ok THEN "none" ELSE "ValueError",
            i |-> i, value |-> c.val]

\* StoreValue without the choices test
StoreValueNoChoices(rargs, collected, arg_def, value) ==
    LET dest == Dest(arg_def)
        same == [err |-> "none", rargs |-> rargs, collected |-> collected]
    IN CASE arg_def.action = "store_true" ->
                [same EXCEPT !.rargs = Put(rargs, dest, PyBool(TRUE))]
         [] arg_def.action = "store_false" ->
                [same EXCEPT !.rargs = Put(rargs, dest, PyBool(FALSE))]
         [] arg_def.action = "count" ->
                LET old == Get(rargs, dest, PyInt(0))
                IN IF IsNum(old)
                   THEN [same EXCEPT !.rargs = Put(rargs, dest, PyInt(Num(old) + 1))]
                   ELSE [same EXCEPT !.err = "TypeError"]
         [] OTHER ->
                IF arg_def.action = "append" \/ arg_def.nargs \in {<<"*">>, <<"+">>}
                THEN [same EXCEPT !.collected =
                        Put(collected, dest,
                            Append(Get(collected, dest, Empty), value))]
                ELSE [same EXCEPT !.rargs = Put(rargs, dest, value)]

\* StoreValue keeping the first value stored: a later one is dropped
StoreValueKeepsFirst(rargs, collected, arg_def, value) ==
    LET dest == Dest(arg_def)
        same == [err |-> "none", rargs |-> rargs, collected |-> collected]
    IN CASE arg_def.action = "store_true" ->
                [same EXCEPT !.rargs = Put(rargs, dest, PyBool(TRUE))]
         [] arg_def.action = "store_false" ->
                [same EXCEPT !.rargs = Put(rargs, dest, PyBool(FALSE))]
         [] arg_def.action = "count" ->
                LET old == Get(rargs, dest, PyInt(0))
                IN IF IsNum(old)
                   THEN [same EXCEPT !.rargs = Put(rargs, dest, PyInt(Num(old) + 1))]
                   ELSE [same EXCEPT !.err = "TypeError"]
         [] OTHER ->
                IF arg_def.action = "append" \/ arg_def.nargs \in {<<"*">>, <<"+">>}
                THEN [same EXCEPT !.collected =
                        Put(collected, dest,
                            Append(Get(collected, dest, Empty), value))]
                ELSE IF Len(arg_def.choices) > 0 /\ ~InChoices(value, arg_def.choices)
                THEN [same EXCEPT !.err = "InvalidChoice"]
                ELSE IF Get(rargs, dest, None) # None THEN same
                ELSE [same EXCEPT !.rargs = Put(rargs, dest, value)]

\* StoreValue with count storing 1 whatever the count was
StoreValueCountRestarts(rargs, collected, arg_def, value) ==
    LET dest == Dest(arg_def)
        same == [err |-> "none", rargs |-> rargs, collected |-> collected]
    IN CASE arg_def.action = "store_true" ->
                [same EXCEPT !.rargs = Put(rargs, dest, PyBool(TRUE))]
         [] arg_def.action = "store_false" ->
                [same EXCEPT !.rargs = Put(rargs, dest, PyBool(FALSE))]
         [] arg_def.action = "count" ->
                [same EXCEPT !.rargs = Put(rargs, dest, PyInt(1))]
         [] OTHER ->
                IF arg_def.action = "append" \/ arg_def.nargs \in {<<"*">>, <<"+">>}
                THEN [same EXCEPT !.collected =
                        Put(collected, dest,
                            Append(Get(collected, dest, Empty), value))]
                ELSE IF Len(arg_def.choices) > 0 /\ ~InChoices(value, arg_def.choices)
                THEN [same EXCEPT !.err = "InvalidChoice"]
                ELSE [same EXCEPT !.rargs = Put(rargs, dest, value)]

\* StoreValue writing the list of a multi-valued flag through to the result
\* at every match
StoreValueWritesThrough(rargs, collected, arg_def, value) ==
    LET dest == Dest(arg_def)
        same == [err |-> "none", rargs |-> rargs, collected |-> collected]
    IN CASE arg_def.action = "store_true" ->
                [same EXCEPT !.rargs = Put(rargs, dest, PyBool(TRUE))]
         [] arg_def.action = "store_false" ->
                [same EXCEPT !.rargs = Put(rargs, dest, PyBool(FALSE))]
         [] arg_def.action = "count" ->
                LET old == Get(rargs, dest, PyInt(0))
                IN IF IsNum(old)
                   THEN [same EXCEPT !.rargs = Put(rargs, dest, PyInt(Num(old) + 1))]
                   ELSE [same EXCEPT !.err = "TypeError"]
         [] OTHER ->
                IF arg_def.action = "append" \/ arg_def.nargs \in {<<"*">>, <<"+">>}
                THEN LET list == Append(Get(collected, dest, Empty), value)
                     IN [same EXCEPT !.collected = Put(collected, dest, list),
                                     !.rargs = Put(rargs, dest, PyList(list))]
                ELSE IF Len(arg_def.choices) > 0 /\ ~InChoices(value, arg_def.choices)
                THEN [same EXCEPT !.err = "InvalidChoice"]
                ELSE [same EXCEPT !.rargs = Put(rargs, dest, value)]

\* _store_value: [err, rargs, collected]; err is "none" when it returns
StoreValue(rargs, collected, arg_def, value) ==
    LET dest == Dest(arg_def)
        same == [err |-> "none", rargs |-> rargs, collected |-> collected]
    IN CASE arg_def.action = "store_true" ->
                [same EXCEPT !.rargs = Put(rargs, dest, PyBool(TRUE))]
         [] arg_def.action = "store_false" ->
                [same EXCEPT !.rargs = Put(rargs, dest, PyBool(FALSE))]
         [] arg_def.action = "count" ->
                LET old == Get(rargs, dest, PyInt(0))
                IN IF IsNum(old)
                   THEN [same EXCEPT !.rargs = Put(rargs, dest, PyInt(Num(old) + 1))]
                   ELSE [same EXCEPT !.err = "TypeError"]
         [] OTHER ->
                IF arg_def.action = "append" \/ arg_def.nargs \in {<<"*">>, <<"+">>}
                THEN [same EXCEPT !.collected =
                        Put(collected, dest,
                            Append(Get(collected, dest, Empty), value))]
                ELSE IF Len(arg_def.choices) > 0 /\ ~InChoices(value, arg_def.choices)
                THEN [same EXCEPT !.err = "InvalidChoice"]
                ELSE [same EXCEPT !.rargs = Put(rargs, dest, value)]

----------------------------------------------------------------------------
(* The state of one parse call, as a record S:                             *)
(*   pc        where parse is: "scan" (the while loop), "flush" (line 141),*)
(*             "help" (line 144), "validate" (line 148), "done" (returned),*)
(*             "help_exit" (sys.exit(0)), "error" (an exception left parse)*)
(*   i, pos_idx, collected, result   the locals of parse                   *)
(*   j         the index of the short cluster's character to process next  *)
(*   err       the exception that left parse, "none" if none did           *)
(*   written   history: the keys of result.args assigned after             *)
(*             _apply_defaults                                             *)
(*   matched   history: the flags resolved and stored, in order            *)

Raise(S, kind) == [S EXCEPT !.pc = "error", !.err = kind]

\* `i += 1` at line 139 and the loop test at line 88, with i2 the value of i
\* before the increment
NextToken(S, args, i2) ==
    [S EXCEPT !.i = i2 + 1, !.j = 0,
              !.pc = IF i2 + 1 < Len(args) THEN "scan" ELSE "flush"]

\* does _store_value put the value in `collected` rather than in result.args
Collects(arg_def) ==
    /\ arg_def.action \notin NoValueActions
    /\ (arg_def.action = "append" \/ arg_def.nargs \in {<<"*">>, <<"+">>})

\* the state after _store_value returned s for flag number k, matched at
\* token `at`
Stored(S, arguments, k, value, s, at) ==
    [S EXCEPT !.result.args = s.rargs,
              !.collected = s.collected,
              !.written = IF Collects(arguments[k]) THEN @
                          ELSE @ \cup {Dest(arguments[k])},
              !.matched = Append(@, [k |-> k, value |-> value, at |-> at])]

\* lines 105-106 and 117-118: _process_arg, then _store_value, then line 139
ProcessAndStore(arguments, args, S, k, value) ==
    LET arg_def == arguments[k]
        p == ProcessArg(arg_def, args, S.i, value)
    IN IF p.err # "none" THEN Raise(S, p.err)
       ELSE LET s == StoreValue(S.result.args, S.collected, arg_def, p.value)
                S1 == [S EXCEPT !.i = p.i]
            IN IF s.err # "none" THEN Raise(S1, s.err)
               ELSE NextToken(Stored(S1, arguments, k, p.value, s, S.i), args, p.i)

\* SeparatorStep slicing from the separator itself: args[i:]
SeparatorStepKeepsDashes(args, S) ==
    [S EXCEPT !.result.remaining = SubSeq(args, S.i + 1, Len(args)),
              !.pc = "flush"]

\* lines 91-93: the separator
SeparatorStep(args, S) ==
    [S EXCEPT !.result.remaining = SubSeq(args, S.i + 2, Len(args)),
              !.pc = "flush"]

\* lines 94-106: a long flag
LongStep(arguments, args, S) ==
    LET arg == args[S.i + 1]
        key0 == SubSeq(arg, 3, Len(arg))
        eq == FindChar(key0, "=", 1)
        key == IF eq > 0 THEN SubSeq(key0, 1, eq - 1) ELSE key0
        value == IF eq > 0 THEN Inline(SubSeq(key0, eq + 1, Len(key0))) ELSE NoValue
        k == FindArg(arguments, key)
    IN IF k = 0 THEN Raise(S, "UnknownArgument")
       ELSE ProcessAndStore(arguments, args, S, k, value)

\* ShortStep storing a no-value flag only as the last character of a cluster
ShortStepSkipsInner(arguments, args, S) ==
    LET arg == args[S.i + 1]
        short == arg[S.j + 2]
        k == FindArgShort(arguments, short)
        last == (S.j = Len(arg) - 2)
    IN IF k = 0 THEN Raise(S, "UnknownArgument")
       ELSE IF arguments[k].action \in NoValueActions THEN
            LET s == StoreValue(S.result.args, S.collected, arguments[k], None)
            IN IF s.err # "none" THEN Raise(S, s.err)
               ELSE IF last THEN NextToken(Stored(S, arguments, k, None, s, S.i),
                                           args, S.i)
               ELSE [S EXCEPT !.j = S.j + 1]
       ELSE IF last THEN ProcessAndStore(arguments, args, S, k, NoValue)
       ELSE Raise(S, "MissingValue")

\* ShortStep giving a value-taking flag the next token wherever it stands in
\* the cluster
ShortStepValueAnywhere(arguments, args, S) ==
    LET arg == args[S.i + 1]
        short == arg[S.j + 2]
        k == FindArgShort(arguments, short)
        last == (S.j = Len(arg) - 2)
    IN IF k = 0 THEN Raise(S, "UnknownArgument")
       ELSE IF arguments[k].action \in NoValueActions THEN
            LET s == StoreValue(S.result.args, S.collected, arguments[k], None)
            IN IF s.err # "none" THEN Raise(S, s.err)
               ELSE LET S1 == Stored(S, arguments, k, None, s, S.i)
                    IN IF last THEN NextToken(S1, args, S.i)
                       ELSE [S1 EXCEPT !.j = S.j + 1]
       ELSE ProcessAndStore(arguments, args, S, k, NoValue)

\* lines 109-120: one iteration of the loop over a short cluster's characters
ShortStep(arguments, args, S) ==
    LET arg == args[S.i + 1]
        short == arg[S.j + 2]
        k == FindArgShort(arguments, short)
        last == (S.j = Len(arg) - 2)
    IN IF k = 0 THEN Raise(S, "UnknownArgument")
       ELSE IF arguments[k].action \in NoValueActions THEN
            LET s == StoreValue(S.result.args, S.collected, arguments[k], None)
            IN IF s.err # "none" THEN Raise(S, s.err)
               ELSE LET S1 == Stored(S, arguments, k, None, s, S.i)
                    IN IF last THEN NextToken(S1, args, S.i)
                       ELSE [S1 EXCEPT !.j = S.j + 1]
       ELSE IF last THEN ProcessAndStore(arguments, args, S, k, NoValue)
       ELSE Raise(S, "MissingValue")

\* BareStep advancing the cursor past a multi-valued positional as well
BareStepAdvances(positionals, args, S) ==
    LET arg == args[S.i + 1]
    IN IF S.pos_idx < Len(positionals) THEN
            LET pos_def == positionals[S.pos_idx + 1]
                c == Convert(arg, pos_def.type)
            IN IF ~c.ok THEN Raise(S, "ValueError")
               ELSE IF Len(pos_def.choices) > 0 /\ ~InChoices(c.val, pos_def.choices)
               THEN Raise(S, "InvalidChoice")
               ELSE IF pos_def.nargs \in {<<"*">>, <<"+">>} THEN
                    NextToken([S EXCEPT !.collected =
                                 Put(@, pos_def.name,
                                     Append(Get(@, pos_def.name, Empty), c.val)),
                                        !.pos_idx = @ + 1],
                              args, S.i)
               ELSE NextToken([S EXCEPT !.result.args = Put(@, pos_def.name, c.val),
                                        !.written = @ \cup {pos_def.name},
                                        !.pos_idx = @ + 1],
                              args, S.i)
       ELSE NextToken([S EXCEPT !.result.remaining = Append(@, arg)], args, S.i)

\* lines 122-137: a bare token
BareStep(positionals, args, S) ==
    LET arg == args[S.i + 1]
    IN IF S.pos_idx < Len(positionals) THEN
            LET pos_def == positionals[S.pos_idx + 1]
                c == Convert(arg, pos_def.type)
            IN IF ~c.ok THEN Raise(S, "ValueError")
               ELSE IF Len(pos_def.choices) > 0 /\ ~InChoices(c.val, pos_def.choices)
               THEN Raise(S, "InvalidChoice")
               ELSE IF pos_def.nargs \in {<<"*">>, <<"+">>} THEN
                    NextToken([S EXCEPT !.collected =
                                 Put(@, pos_def.name,
                                     Append(Get(@, pos_def.name, Empty), c.val))],
                              args, S.i)
               ELSE NextToken([S EXCEPT !.result.args = Put(@, pos_def.name, c.val),
                                        !.written = @ \cup {pos_def.name},
                                        !.pos_idx = @ + 1],
                              args, S.i)
       ELSE NextToken([S EXCEPT !.result.remaining = Append(@, arg)], args, S.i)

\* the dispatch of lines 91, 94, 108 and 121
IsSeparator(arg) == arg = <<"-", "-">>
IsLong(arg) == ~IsSeparator(arg) /\ StartsWith(arg, <<"-", "-">>)
IsShort(arg) == ~IsSeparator(arg) /\ ~IsLong(arg)
                /\ StartsWith(arg, <<"-">>) /\ Len(arg) > 1
IsBare(arg) == ~IsSeparator(arg) /\ ~IsLong(arg) /\ ~IsShort(arg)

\* lines 141-142
RECURSIVE FlushKeys(_, _, _)
FlushKeys(rargs, collected, keys) ==
    IF keys = {} THEN rargs
    ELSE LET name == CHOOSE n \in keys : TRUE
         IN FlushKeys(Put(rargs, name, PyList(collected[name])), collected,
                      keys \ {name})

FlushStep(S) ==
    [S EXCEPT !.result.args = FlushKeys(@, S.collected, DOMAIN S.collected),
              !.written = @ \cup DOMAIN S.collected,
              !.pc = "help"]

\* HelpStep testing `result.args.get("help") is True`
HelpStepIsTrue(S) ==
    IF Get(S.result.args, HelpName, None) = PyBool(TRUE)
    THEN [S EXCEPT !.pc = "help_exit"]
    ELSE [S EXCEPT !.pc = "validate"]

\* lines 144-146
HelpStep(S) ==
    IF Truthy(Get(S.result.args, HelpName, None))
    THEN [S EXCEPT !.pc = "help_exit"]
    ELSE [S EXCEPT !.pc = "validate"]

\* MissingRequired testing `dest not in result.args`
MissingRequiredAbsent(arguments, rargs) ==
    \E k \in 1..Len(arguments) :
        arguments[k].required /\ Dest(arguments[k]) \notin DOMAIN rargs

\* MissingRequired testing `not result.args.get(dest)`
MissingRequiredFalsy(arguments, rargs) ==
    \E k \in 1..Len(arguments) :
        arguments[k].required /\ ~Truthy(Get(rargs, Dest(arguments[k]), None))

\* _validate
MissingRequired(arguments, rargs) ==
    \E k \in 1..Len(arguments) :
        arguments[k].required /\ Get(rargs, Dest(arguments[k]), None) = None

\* lines 148-149
ValidateStep(arguments, S) ==
    IF MissingRequired(arguments, S.result.args)
    THEN Raise(S, "RequiredArgument")
    ELSE [S EXCEPT !.pc = "done"]

\* lines 79-86: the state when the while loop is first tested
StartState(arguments, args) ==
    [pc |-> IF 0 < Len(args) THEN "scan" ELSE "flush",
     i |-> 0, j |-> 0, pos_idx |-> 0,
     result |-> [args |-> ApplyDefaults(arguments), positionals |-> Empty,
                 remaining |-> Empty],
     collected |-> EmptyDict, err |-> "none", written |-> {}, matched |-> Empty]

\* ParseStep with a validation that also wants a value under the name of
\* every positional with nargs exactly-one or one-or-more
ParseStepNeedsPositionals(arguments, positionals, args, S) ==
    CASE S.pc = "scan" ->
            LET arg == args[S.i + 1]
            IN CASE IsSeparator(arg) -> SeparatorStep(args, S)
                 [] IsLong(arg) -> LongStep(arguments, args, S)
                 [] IsShort(arg) -> ShortStep(arguments, args, S)
                 [] OTHER -> BareStep(positionals, args, S)
      [] S.pc = "flush" -> FlushStep(S)
      [] S.pc = "help" -> HelpStep(S)
      [] S.pc = "validate" ->
            IF \E p \in 1..Len(positionals) :
                  /\ positionals[p].nargs \in {Empty, <<"+">>}
                  /\ Get(S.result.args, positionals[p].name, None) = None
            THEN Raise(S, "RequiredArgument")
            ELSE ValidateStep(arguments, S)
      [] OTHER -> S

\* one step of parse from state S
ParseStep(arguments, positionals, args, S) ==
    CASE S.pc = "scan" ->
            LET arg == args[S.i + 1]
            IN CASE IsSeparator(arg) -> SeparatorStep(args, S)
                 [] IsLong(arg) -> LongStep(arguments, args, S)
                 [] IsShort(arg) -> ShortStep(arguments, args, S)
                 [] OTHER -> BareStep(positionals, args, S)
      [] S.pc = "flush" -> FlushStep(S)
      [] S.pc = "help" -> HelpStep(S)
      [] S.pc = "validate" -> ValidateStep(arguments, S)
      [] OTHER -> S

Terminal == {"done", "help_exit", "error"}

\* parse run to its end from state S
RECURSIVE RunFrom(_, _, _, _)
RunFrom(arguments, positionals, args, S) ==
    IF S.pc \in Terminal THEN S
    ELSE RunFrom(arguments, positionals, args,
                 ParseStep(arguments, positionals, args, S))

\* parse(args) on a parser with the given schema
Parse(arguments, positionals, args) ==
    RunFrom(arguments, positionals, args, StartState(arguments, args))

----------------------------------------------------------------------------
(* The inputs: the flags and positionals a caller may declare, and the     *)
(* tokens of the argument vectors it may parse.                            *)

MaxDecl == 2     \* add_argument and add_positional calls after construction
MaxArgv == 3     \* tokens of an argument vector

NameA == <<"a">>
NameB == <<"b">>
ValX == <<"x">>
ValOne == <<"1">>
DefaultD == PyStr(<<"d">>)
Opt == <<"?">>
Star == <<"*">>
Plus == <<"+">>
ChoicesX == <<PyStr(ValX)>>

FlagUniverse ==
    { \*  name   short  type   default  required choices  nargs  action  dest
      Arg(NameA, NameA, "str", None, FALSE, Empty, Empty, "store", Empty),
      Arg(NameA, NameA, "str", None, TRUE, ChoicesX, Empty, "store", Empty),
      Arg(NameA, NameA, "str", DefaultD, FALSE, ChoicesX, Opt, "store", Empty),
      Arg(NameA, NameA, "int", None, TRUE, Empty, Empty, "store", Empty),
      Arg(NameA, NameA, "str", None, FALSE, Empty, Empty, "append", Empty),
      Arg(NameA, NameA, "str", None, FALSE, Empty, Empty, "count", Empty),
      Arg(NameB, NameB, "str", None, FALSE, Empty, Empty, "store_true", Empty),
      Arg(NameB, NameB, "str", None, TRUE, Empty, Empty, "store_false", Empty),
      Arg(NameB, NameB, "str", DefaultD, TRUE, Empty, Empty, "store", NameA),
      Arg(NameB, Empty, "str", DefaultD, FALSE, ChoicesX, Star, "store", Empty),
      Arg(NameB, NameB, "bool", None, FALSE, Empty, Opt, "store", Empty),
      Arg(HelpName, <<"h">>, "str", DefaultD, FALSE, Empty, Empty, "store", Empty) }

PositionalUniverse ==
    { Positional(<<"p">>, "str", Empty, None, Empty),
      Positional(<<"q">>, "int", Star, None, Empty),
      Positional(NameA, "str", Empty, None, ChoicesX),
      Positional(NameB, "str", Plus, None, Empty) }

Tokens ==
    { <<"-", "-">>,
      <<"-", "-", "a">>,
      <<"-", "-", "a", "=", "x">>,
      <<"-", "-", "b">>,
      <<"-", "-", "h", "e", "l", "p">>,
      <<"-", "-", "=", "x">>,
      <<"-", "-", "z">>,
      <<"-", "a">>,
      <<"-", "b", "a">>,
      <<"-", "b", "b", "a">>,
      <<"-", "a", "b">>,
      <<"-", "b", "z">>,
      <<"-", "b", "a", "b">>,
      <<"-">>,
      ValX,
      ValOne }

RECURSIVE SeqsUpTo(_, _)
SeqsUpTo(S, n) ==
    IF n = 0 THEN { Empty }
    ELSE LET shorter == SeqsUpTo(S, n - 1)
         IN shorter \cup { Append(q, x) : q \in shorter, x \in S }

ArgvUniverse == SeqsUpTo(Tokens, MaxArgv)

----------------------------------------------------------------------------
(* The parser object and the parse call in progress *)

VARIABLES arguments, positionals, args, pc, i, j, pos_idx, result, collected,
          err, written, matched

schema == <<arguments, positionals>>
call == <<args, pc, i, j, pos_idx, result, collected, err, written, matched>>
vars == <<arguments, positionals, args, pc, i, j, pos_idx, result, collected,
          err, written, matched>>

\* the parse call's state as a record, and the state a step leaves
Cur == [pc |-> pc, i |-> i, j |-> j, pos_idx |-> pos_idx, result |-> result,
        collected |-> collected, err |-> err, written |-> written,
        matched |-> matched]

Becomes(S) ==
    /\ pc' = S.pc
    /\ i' = S.i
    /\ j' = S.j
    /\ pos_idx' = S.pos_idx
    /\ result' = S.result
    /\ collected' = S.collected
    /\ err' = S.err
    /\ written' = S.written
    /\ matched' = S.matched

\* ArgParser.__init__: no positionals, and the help flag _add_help registers
Init ==
    /\ arguments = <<HelpArg>>
    /\ positionals = Empty
    /\ args = Empty
    /\ pc = "build"
    /\ i = 0
    /\ j = 0
    /\ pos_idx = 0
    /\ result = [args |-> EmptyDict, positionals |-> Empty, remaining |-> Empty]
    /\ collected = EmptyDict
    /\ err = "none"
    /\ written = {}
    /\ matched = Empty

Declared == (Len(arguments) - 1) + Len(positionals)

\* add_argument
AddArgument ==
    /\ pc = "build"
    /\ Declared < MaxDecl
    /\ \E arg \in FlagUniverse : arguments' = Append(arguments, arg)
    /\ UNCHANGED <<positionals, call>>

\* add_positional
AddPositional ==
    /\ pc = "build"
    /\ Declared < MaxDecl
    /\ \E pos \in PositionalUniverse : positionals' = Append(positionals, pos)
    /\ UNCHANGED <<arguments, call>>

\* parse is called: lines 78-86
ParseStart ==
    /\ pc = "build"
    /\ \E argv \in ArgvUniverse :
          /\ args' = argv
          /\ Becomes(StartState(arguments, argv))
    /\ UNCHANGED schema

ScanSeparator ==
    /\ pc = "scan"
    /\ IsSeparator(args[i + 1])
    /\ Becomes(SeparatorStep(args, Cur))
    /\ UNCHANGED <<schema, args>>

ScanLong ==
    /\ pc = "scan"
    /\ IsLong(args[i + 1])
    /\ Becomes(LongStep(arguments, args, Cur))
    /\ UNCHANGED <<schema, args>>

ScanShort ==
    /\ pc = "scan"
    /\ IsShort(args[i + 1])
    /\ Becomes(ShortStep(arguments, args, Cur))
    /\ UNCHANGED <<schema, args>>

ScanBare ==
    /\ pc = "scan"
    /\ IsBare(args[i + 1])
    /\ Becomes(BareStep(positionals, args, Cur))
    /\ UNCHANGED <<schema, args>>

Flush ==
    /\ pc = "flush"
    /\ Becomes(FlushStep(Cur))
    /\ UNCHANGED <<schema, args>>

HelpCheck ==
    /\ pc = "help"
    /\ Becomes(HelpStep(Cur))
    /\ UNCHANGED <<schema, args>>

Validate ==
    /\ pc = "validate"
    /\ Becomes(ValidateStep(arguments, Cur))
    /\ UNCHANGED <<schema, args>>

Next ==
    \/ AddArgument
    \/ AddPositional
    \/ ParseStart
    \/ ScanSeparator
    \/ ScanLong
    \/ ScanShort
    \/ ScanBare
    \/ Flush
    \/ HelpCheck
    \/ Validate

Spec == Init /\ [][Next]_vars

----------------------------------------------------------------------------
(* Vocabulary of the properties *)

FlagIdx == 1..Len(arguments)
PosIdx == 1..Len(positionals)
InParse == pc # "build"

\* the default the documentation gives a flag
ClaimedDefault(arg) ==
    IF arg.action = "store_true" THEN PyBool(FALSE)
    ELSE IF arg.action = "store_false" THEN PyBool(TRUE)
    ELSE IF arg.action = "count" THEN PyInt(0)
    ELSE arg.default

\* the last declared flag whose destination is d
LastWithDest(d) ==
    CHOOSE k \in FlagIdx :
        /\ Dest(arguments[k]) = d
        /\ \A m \in FlagIdx : Dest(arguments[m]) = d => m <= k

\* flag k shares its destination with another flag or with a positional
SharedDest(k) ==
    \/ \E m \in FlagIdx \ {k} : Dest(arguments[m]) = Dest(arguments[k])
    \/ \E p \in PosIdx : positionals[p].name = Dest(arguments[k])

\* no two flags have the same name or the same non-empty short, and no two
\* positionals have the same name
NoDuplicates ==
    /\ \A k, m \in FlagIdx :
          k # m => /\ arguments[k].name # arguments[m].name
                   /\ (Len(arguments[k].short) > 0 =>
                          arguments[k].short # arguments[m].short)
    /\ \A p, q \in PosIdx : p # q => positionals[p].name # positionals[q].name

----------------------------------------------------------------------------
(* C1 *)

\* C1 as stated: during and after a parse the destination key of every
\* declared flag is in the result map, and in a returned result a flag whose
\* destination was never written holds its own default (false for
\* store_true, true for store_false, 0 for count, else the configured one).
\* Stated of the schemas without duplicate names.
C1_AsStated ==
    /\ InParse => \A k \in FlagIdx : Dest(arguments[k]) \in DOMAIN result.args
    /\ (pc = "done" /\ NoDuplicates) =>
          \A k \in FlagIdx :
              Dest(arguments[k]) \notin written =>
                  result.args[Dest(arguments[k])] = ClaimedDefault(arguments[k])

\* C1 amended: during and after a parse the destination key of every declared
\* flag is in the result map, and a destination never written holds the
\* default of the LAST declared flag with that destination.
C1_DefaultPopulation ==
    InParse =>
        \A k \in FlagIdx :
            LET d == Dest(arguments[k])
            IN /\ d \in DOMAIN result.args
               /\ d \notin written =>
                     result.args[d] = ClaimedDefault(arguments[LastWithDest(d)])

\* a result was returned for a non-empty argv, and a flag's unwritten
\* destination is shared with a later flag
C1_Witness ==
    /\ pc = "done"
    /\ Len(args) > 0
    /\ \E k \in FlagIdx :
          /\ k > 1
          /\ Dest(arguments[k]) \notin written
          /\ LastWithDest(Dest(arguments[k])) # k

----------------------------------------------------------------------------
(* C2 *)

\* the text between the leading "--" and the first "="
KeyOf(arg) ==
    LET rest == SubSeq(arg, 3, Len(arg))
        eq == FindChar(rest, "=", 1)
    IN IF eq > 0 THEN SubSeq(rest, 1, eq - 1) ELSE rest

\* key is a declared flag's name or a flag's explicitly declared dest
Declares(key) ==
    \E k \in FlagIdx :
        \/ arguments[k].name = key
        \/ Len(arguments[k].dest) > 0 /\ arguments[k].dest = key

\* the scan is at a long token with an undeclared key, or at a cluster
\* character that is no flag's short
UnknownHere ==
    /\ pc = "scan"
    /\ \/ IsLong(args[i + 1]) /\ ~Declares(KeyOf(args[i + 1]))
       \/ /\ IsShort(args[i + 1])
          /\ \A k \in FlagIdx : arguments[k].short # <<args[i + 1][j + 2]>>

RaisesUnknown ==
    /\ pc' = "error"
    /\ err' = "UnknownArgument"
    /\ result' = result
    /\ collected' = collected
    /\ matched' = matched

\* C2: a long token whose key (possibly empty) is no flag's name and no
\* explicit dest, and a cluster character that is no flag's short, make
\* parse fail with the unknown-argument error; nothing is resolved or stored
\* and no help exit is taken.
C2_UnknownFlag == [][UnknownHere => RaisesUnknown]_vars

\* C2 holds of every key that is not empty
C2_UnknownFlagNonEmptyKey ==
    [][(UnknownHere /\ (IsLong(args[i + 1]) => Len(KeyOf(args[i + 1])) > 0))
          => RaisesUnknown]_vars

----------------------------------------------------------------------------
(* C3 *)

\* C3: when the scan reaches a bare "--", the loop is left at once with
\* every later token in `remaining`, verbatim and in order; nothing is
\* matched or stored for those tokens, and the outcome of the parse is the
\* one of the argv cut after the "--": they raise no error.
C3_Separator ==
    (pc = "scan" /\ IsSeparator(args[i + 1])) =>
        LET tail == SubSeq(args, i + 2, Len(args))
            step == ParseStep(arguments, positionals, args, Cur)
            full == RunFrom(arguments, positionals, args, Cur)
            cut == RunFrom(arguments, positionals, SubSeq(args, 1, i + 1), Cur)
        IN /\ step.pc = "flush"
           /\ step.result.remaining = tail
           /\ step.result.args = result.args
           /\ step.collected = collected
           /\ step.matched = matched
           /\ step.pos_idx = pos_idx
           /\ full.result.remaining = tail
           /\ full.matched = matched
           /\ full.pc = cut.pc
           /\ full.err = cut.err
           /\ full.err \in {"none", "RequiredArgument"}
           /\ full.result.args = cut.result.args

\* the loop was left at a "--" that flag-like tokens follow, and parse
\* returned with them in `remaining`
C3_Witness ==
    /\ pc = "done"
    /\ i + 1 < Len(args)
    /\ IsSeparator(args[i + 1])
    /\ result.remaining = SubSeq(args, i + 2, Len(args))
    /\ \E n \in (i + 2)..Len(args) : args[n] = <<"-", "-", "z">>

----------------------------------------------------------------------------
(* C4 *)

\* C4: add_argument and add_positional refuse a duplicate with SchemaError,
\* so flag names are pairwise distinct, non-empty shorts are pairwise
\* distinct and positional names are pairwise distinct.
C4_SchemaUnique == NoDuplicates

----------------------------------------------------------------------------
(* C5 *)

\* C5 as stated: parse([]) on a schema with a flag marked required fails
\* with the required-argument error.  Stated of the schemas without
\* duplicate names.
C5_AsStated ==
    (/\ pc \in Terminal
     /\ args = Empty
     /\ NoDuplicates
     /\ \E k \in FlagIdx : arguments[k].required)
        => (pc = "error" /\ err = "RequiredArgument")

\* the value default population leaves under key d
AfterDefaults(d) == ClaimedDefault(arguments[LastWithDest(d)])

\* C5 amended: parse([]) fails with the required-argument error on a schema
\* where default population leaves null under some required flag's
\* destination and leaves no true value under "help".
C5_EmptyInputRequired ==
    ( /\ pc \in Terminal
      /\ args = Empty
      /\ \E k \in FlagIdx :
            arguments[k].required /\ AfterDefaults(Dest(arguments[k])) = None
      /\ ~Truthy(AfterDefaults(HelpName)) )
        => (pc = "error" /\ err = "RequiredArgument")

\* parse([]) failed with the required-argument error
C5_Witness ==
    /\ pc = "error"
    /\ err = "RequiredArgument"
    /\ args = Empty
    /\ Len(arguments) > 2

----------------------------------------------------------------------------
(* C6 *)

\* the value under "help" in the result map
HelpValue == Get(result.args, HelpName, None)

\* some flag marked required has a null or absent value under its destination
RequiredNull ==
    \E k \in FlagIdx :
        /\ arguments[k].required
        /\ \/ Dest(arguments[k]) \notin DOMAIN result.args
           \/ result.args[Dest(arguments[k])] = None

\* C6: once the scan and the flush completed without error and the value
\* under "help" is not true, parse fails with the required-argument error
\* if and only if some required flag's destination is null; no returned
\* result has a required flag with a null destination.
C6_RequiredValidation ==
    /\ (pc = "help" /\ ~Truthy(HelpValue)) =>
          LET fin == RunFrom(arguments, positionals, args, Cur)
          IN /\ fin.pc \in {"done", "error"}
             /\ (fin.pc = "error") = RequiredNull
             /\ fin.pc = "error" => fin.err = "RequiredArgument"
             /\ fin.result = result
    /\ pc = "validate" => ~Truthy(HelpValue)
    /\ pc = "done" => ~RequiredNull
    /\ (pc = "error" /\ err = "RequiredArgument") => RequiredNull

\* after a scan that matched a flag, validation failed
C6_Witness ==
    /\ pc = "error"
    /\ err = "RequiredArgument"
    /\ Len(matched) > 0
    /\ i = Len(args)

----------------------------------------------------------------------------
(* C7 *)

\* C7: the help check runs once, after the scan and the flush and before
\* validation; when the value under "help" is true there, parse takes the
\* help exit and the required-argument error is never raised; an error of
\* the scan ends parse before the help check.
C7_HelpBypassesValidation ==
    /\ [](pc = "help_exit" => (err = "none" /\ Truthy(HelpValue)))
    /\ []((pc = "error" /\ err = "RequiredArgument") => ~Truthy(HelpValue))
    /\ [][ /\ pc = "help" =>
                pc' = IF Truthy(HelpValue) THEN "help_exit" ELSE "validate"
           /\ pc' = "help" => pc = "flush"
           /\ pc' \in {"validate", "help_exit"} => pc = "help"
           /\ (pc' = "done" \/ (pc' = "error" /\ err' = "RequiredArgument"))
                => pc = "validate"
           /\ pc = "error" => pc' = "error" ]_vars

\* the help exit was taken although a required flag has no value
C7_Witness ==
    /\ pc = "help_exit"
    /\ RequiredNull
    /\ Len(matched) > 0

----------------------------------------------------------------------------
(* C8 *)

\* the cluster token split in one token per character
SplitCluster(arg) == [n \in 1..(Len(arg) - 1) |-> <<"-", arg[n + 1]>>]

\* the scan is at a cluster of two or more characters, all but the last
\* shorts of no-value flags and the last the short of some flag
ClusterHere ==
    /\ pc = "scan"
    /\ j = 0
    /\ IsShort(args[i + 1])
    /\ Len(args[i + 1]) > 2
    /\ \A n \in 2..Len(args[i + 1]) :
          /\ FindArgShort(arguments, args[i + 1][n]) # 0
          /\ n < Len(args[i + 1]) =>
                arguments[FindArgShort(arguments, args[i + 1][n])].action
                    \in NoValueActions

\* the flags matched and their values, without the token positions
MatchedValues(S) == [n \in 1..Len(S.matched) |-> <<S.matched[n].k, S.matched[n].value>>]

\* C8: a cluster -x1..xn of no-value shorts x1..x(n-1) and any short xn has
\* the outcome of the separate tokens -x1 .. -xn in its place: the same
\* result map, remaining, flags matched, error, and tokens consumed.
C8_ShortCluster ==
    ClusterHere =>
        LET arg == args[i + 1]
            split == SubSeq(args, 1, i) \o SplitCluster(arg)
                        \o SubSeq(args, i + 2, Len(args))
            one == RunFrom(arguments, positionals, args, Cur)
            sep == RunFrom(arguments, positionals, split, Cur)
        IN /\ one.pc = sep.pc
           /\ one.err = sep.err
           /\ one.result = sep.result
           /\ one.collected = sep.collected
           /\ MatchedValues(one) = MatchedValues(sep)
           /\ one.pc # "error" => sep.i = one.i + (Len(arg) - 2)

\* parse returned after a cluster whose first flag took no value and whose
\* last flag took the following token
C8_Witness ==
    /\ pc = "done"
    /\ \E n \in 1..(Len(matched) - 1) :
          /\ matched[n].at = matched[n + 1].at
          /\ arguments[matched[n].k].action \in NoValueActions
          /\ arguments[matched[n + 1].k].action = "store"
          /\ matched[n].at + 2 <= Len(args)
          /\ matched[n + 1].value = PyStr(args[matched[n].at + 2])

----------------------------------------------------------------------------
(* C9 *)

\* a flag whose values are checked against its choices
ChoiceFlag(arg_def) ==
    /\ Len(arg_def.choices) > 0
    /\ arg_def.action = "store"
    /\ arg_def.nargs \notin {<<"*">>, <<"+">>}

\* the flag the token at the scan position resolves to, 0 if the token is
\* no flag token, resolves to no flag, or is a cluster not at its last
\* character
FlagHere ==
    IF pc # "scan" THEN 0
    ELSE IF IsLong(args[i + 1]) THEN FindArg(arguments, KeyOf(args[i + 1]))
    ELSE IF IsShort(args[i + 1]) /\ j = Len(args[i + 1]) - 2
         THEN FindArgShort(arguments, args[i + 1][j + 2])
    ELSE 0

\* the inline "=value" of the token at the scan position
InlineHere ==
    LET rest == SubSeq(args[i + 1], 3, Len(args[i + 1]))
        eq == FindChar(rest, "=", 1)
    IN IF IsLong(args[i + 1]) /\ eq > 0
       THEN Inline(SubSeq(rest, eq + 1, Len(rest)))
       ELSE NoValue

\* a non-member value is refused at its token, for flags and positionals
ChoiceRefused ==
    /\ (FlagHere # 0 /\ ChoiceFlag(arguments[FlagHere])) =>
          LET p == ProcessArg(arguments[FlagHere], args, i, InlineHere)
              step == ParseStep(arguments, positionals, args, Cur)
          IN (p.err = "none" /\ ~InChoices(p.value, arguments[FlagHere].choices))
                => (step.pc = "error" /\ step.err = "InvalidChoice"
                    /\ step.result = result /\ step.collected = collected)
    /\ (/\ pc = "scan"
        /\ IsBare(args[i + 1])
        /\ pos_idx < Len(positionals)
        /\ Len(positionals[pos_idx + 1].choices) > 0) =>
          LET c == Convert(args[i + 1], positionals[pos_idx + 1].type)
              step == ParseStep(arguments, positionals, args, Cur)
          IN (c.ok /\ ~InChoices(c.val, positionals[pos_idx + 1].choices))
                => (step.pc = "error" /\ step.err = "InvalidChoice"
                    /\ step.result = result /\ step.collected = collected)
    /\ \A n \in 1..Len(matched) :
          ChoiceFlag(arguments[matched[n].k]) =>
              InChoices(matched[n].value, arguments[matched[n].k].choices)

WasMatched(k) == \E n \in 1..Len(matched) : matched[n].k = k

\* C9 as stated: a value outside the choices of a flag (action store, nargs
\* not * or +) or of a positional makes parse fail with the invalid-choice
\* error at that token, so in every returned result a matched flag of that
\* kind holds a member of its choices.  Stated of the schemas without
\* duplicate names.
C9_AsStated ==
    /\ ChoiceRefused
    /\ (pc = "done" /\ NoDuplicates) =>
          \A k \in FlagIdx :
              (ChoiceFlag(arguments[k]) /\ WasMatched(k)) =>
                  InChoices(result.args[Dest(arguments[k])], arguments[k].choices)

\* C9 amended: ... so in every returned result a matched flag of that kind
\* whose destination is shared with no other flag or positional holds a
\* member of its choices.
C9_ChoiceViolation ==
    /\ ChoiceRefused
    /\ pc = "done" =>
          \A k \in FlagIdx :
              (ChoiceFlag(arguments[k]) /\ WasMatched(k) /\ ~SharedDest(k)) =>
                  InChoices(result.args[Dest(arguments[k])], arguments[k].choices)

\* a value outside a flag's choices, taken from the token after the flag,
\* ended parse with the invalid-choice error
C9_Witness ==
    /\ pc = "error"
    /\ err = "InvalidChoice"
    /\ i + 2 <= Len(args)
    /\ args[i + 1] = <<"-", "-", "a">>
    /\ args[i + 2] = ValOne

----------------------------------------------------------------------------
(* C10 *)

\* a flag that stores one value per match
StoreFlag(arg_def) ==
    arg_def.action = "store" /\ arg_def.nargs \notin {<<"*">>, <<"+">>}

\* the matches of flag k, as indices of `matched`
MatchesOf(k) == {n \in 1..Len(matched) : matched[n].k = k}

MaxOf(S) == CHOOSE n \in S : \A m \in S : m <= n

\* the value the occurrence of flag k at token `at` carries: the converted
\* inline value, the converted next token, or, for nargs "?" with no next
\* token or one starting with "-", the flag's default
OccurrenceValue(k, at) ==
    LET tok == args[at + 1]
        eq == FindChar(tok, "=", 3)
    IN IF StartsWith(tok, <<"-", "-">>) /\ eq > 0
       THEN Convert(SubSeq(tok, eq + 1, Len(tok)), arguments[k].type).val
       ELSE IF arguments[k].nargs = <<"?">>
               /\ (at + 2 > Len(args) \/ args[at + 2][1] = "-")
       THEN arguments[k].default
       ELSE Convert(args[at + 2], arguments[k].type).val

\* C10: a store flag (nargs not * or +) whose destination no other flag or
\* positional shares, matched once or more in any mix of forms, holds in the
\* returned result the value of its last occurrence in input order.
C10_LastWriteWins ==
    pc = "done" =>
        \A k \in FlagIdx :
            (StoreFlag(arguments[k]) /\ ~SharedDest(k) /\ MatchesOf(k) # {}) =>
                LET last == MaxOf(MatchesOf(k))
                IN /\ \A n \in MatchesOf(k) : matched[n].at <= matched[last].at
                   /\ result.args[Dest(arguments[k])]
                        = OccurrenceValue(k, matched[last].at)

\* a flag was given inline and then as a separate token with another value,
\* and parse returned
C10_Witness ==
    /\ pc = "done"
    /\ \E k \in FlagIdx :
          /\ StoreFlag(arguments[k])
          /\ ~SharedDest(k)
          /\ Cardinality(MatchesOf(k)) = 2
          /\ \E n, m \in MatchesOf(k) :
                /\ n < m
                /\ matched[n].value # matched[m].value
                /\ FindChar(args[matched[n].at + 1], "=", 1) > 0
                /\ FindChar(args[matched[m].at + 1], "=", 1) = 0

----------------------------------------------------------------------------
(* C11 *)

\* the flag the scan is about to match: the one the long token's key or the
\* cluster's current character resolves to, 0 if there is none
MatchHere ==
    IF pc # "scan" THEN 0
    ELSE IF IsLong(args[i + 1]) THEN FindArg(arguments, KeyOf(args[i + 1]))
    ELSE IF IsShort(args[i + 1])
         THEN FindArgShort(arguments, args[i + 1][j + 2])
    ELSE 0

\* a count flag whose destination no other flag or positional shares
OwnCount(k) == arguments[k].action = "count" /\ ~SharedDest(k)

\* the first flag a long token with this key names: by name or explicit dest
NamedBy(key) ==
    LET named == {k \in FlagIdx : \/ arguments[k].name = key
                                  \/ arguments[k].dest = key}
    IN IF named = {} THEN 0 ELSE CHOOSE k \in named : \A m \in named : k <= m

\* C11: the value of a count flag with an unshared destination is, all
\* through the parse and in the returned result, the number of its matches
\* so far (0 before the first); a match, as a long token or as a cluster
\* character, raises nothing, adds exactly 1 and consumes no following
\* token; an argv of n copies of the flag's long token yields n.
C11_CountAction ==
    /\ InParse =>
          \A k \in FlagIdx :
              OwnCount(k) =>
                  result.args[Dest(arguments[k])]
                      = PyInt(Cardinality(MatchesOf(k)))
    /\ (MatchHere # 0 /\ OwnCount(MatchHere)) =>
          LET d == Dest(arguments[MatchHere])
              inner == IsShort(args[i + 1]) /\ j < Len(args[i + 1]) - 2
              step == ParseStep(arguments, positionals, args, Cur)
          IN /\ step.pc # "error"
             /\ step.result.args[d] = PyInt(result.args[d].v + 1)
             /\ step.result.remaining = result.remaining
             /\ step.collected = collected
             /\ IF inner THEN step.i = i /\ step.j = j + 1
                ELSE step.i = i + 1 /\ step.j = 0
    /\ pc = "done" =>
          \A k \in FlagIdx :
              ( /\ OwnCount(k)
                /\ NamedBy(arguments[k].name) = k
                /\ \A n \in 1..Len(args) :
                      args[n] = <<"-", "-">> \o arguments[k].name )
                  => result.args[Dest(arguments[k])] = PyInt(Len(args))

\* parse returned a count of 3 reached through long tokens and clusters
C11_Witness ==
    /\ pc = "done"
    /\ \E k \in FlagIdx :
          /\ OwnCount(k)
          /\ result.args[Dest(arguments[k])] = PyInt(3)
          /\ \E n, m \in MatchesOf(k) :
                /\ IsLong(args[matched[n].at + 1])
                /\ IsShort(args[matched[m].at + 1])

----------------------------------------------------------------------------
(* C12 *)

MultiPos(p) == positionals[p].nargs \in {<<"*">>, <<"+">>}

\* the first multi-valued positional, 0 if none is declared
FirstMulti ==
    LET multi == {p \in PosIdx : MultiPos(p)}
    IN IF multi = {} THEN 0 ELSE CHOOSE p \in multi : \A q \in multi : p <= q

\* the occurrence of flag k at token `at` takes the token after it as value
TakesNext(k, at) ==
    /\ arguments[k].action \notin NoValueActions
    /\ ~(IsLong(args[at + 1]) /\ FindChar(args[at + 1], "=", 3) > 0)
    /\ ~(/\ arguments[k].nargs = <<"?">>
          /\ (at + 2 > Len(args) \/ args[at + 2][1] = "-"))

\* token n (0-based) was taken as the value of the flag before it
Consumed(n) ==
    \E e \in 1..Len(matched) :
        matched[e].at + 1 = n /\ TakesNext(matched[e].k, matched[e].at)

\* a set of numbers as an ascending sequence
RECURSIVE Ascending(_)
Ascending(S) ==
    IF S = {} THEN Empty
    ELSE LET least == CHOOSE n \in S : \A m \in S : n <= m
         IN <<least>> \o Ascending(S \ {least})

\* the bare tokens the scan has dispatched so far, as 0-based indices in
\* input order
BareReached ==
    Ascending({n \in 0..(i - 1) : IsBare(args[n + 1]) /\ ~Consumed(n)})

\* the list a multi-valued positional at place m is to hold: the converted
\* bare tokens from the m-th on
GreedyList(m) ==
    [e \in 1..(Len(BareReached) - (m - 1)) |->
        Convert(args[BareReached[e + m - 1] + 1], positionals[m].type).val]

\* the name of positional p is no flag's destination and no other
\* positional's name
OwnName(p) ==
    /\ \A k \in FlagIdx : Dest(arguments[k]) # positionals[p].name
    /\ \A q \in PosIdx \ {p} : positionals[q].name # positionals[p].name

\* the cursor stays on a multi-valued positional, which takes every bare
\* token converted, and nothing goes to `remaining`
GreedyScan ==
    /\ (InParse /\ FirstMulti # 0) => pos_idx < FirstMulti
    /\ (pc = "scan" /\ FirstMulti # 0) => result.remaining = Empty
    /\ (/\ pc = "scan"
        /\ IsBare(args[i + 1])
        /\ pos_idx < Len(positionals)
        /\ MultiPos(pos_idx + 1)) =>
          LET pos_def == positionals[pos_idx + 1]
              c == Convert(args[i + 1], pos_def.type)
              step == ParseStep(arguments, positionals, args, Cur)
          IN (c.ok /\ (Len(pos_def.choices) > 0
                            => InChoices(c.val, pos_def.choices))) =>
                /\ step.pc # "error"
                /\ step.pos_idx = pos_idx
                /\ step.i = i + 1
                /\ step.result = result
                /\ step.collected[pos_def.name]
                     = Append(Get(collected, pos_def.name, Empty), c.val)

\* C12 as stated: once the cursor is at a positional with nargs * or + it
\* never advances; every later bare token the scan reaches is converted and
\* appended to it and none goes to `remaining`; the returned result holds
\* under its name the list of those values in encounter order, and each
\* positional before it holds the one bare token of its place.  Stated of
\* the schemas without duplicate names, and of a multi-valued positional
\* that at least one bare token reached.
C12_AsStated ==
    /\ GreedyScan
    /\ (pc = "done" /\ NoDuplicates /\ FirstMulti # 0) =>
          /\ GreedyList(FirstMulti) # Empty =>
                Get(result.args, positionals[FirstMulti].name, None)
                    = PyList(GreedyList(FirstMulti))
          /\ \A p \in 1..(FirstMulti - 1) :
                p <= Len(BareReached) =>
                    Get(result.args, positionals[p].name, None)
                        = Convert(args[BareReached[p] + 1], positionals[p].type).val

\* C12 amended: ... the returned result holds the list under the name of a
\* multi-valued positional whose name is no flag's destination and no other
\* positional's name, and has no entry under it when no bare token reached
\* it; a positional before it with such a name holds the one bare token of
\* its place.
C12_GreedyPositional ==
    /\ GreedyScan
    /\ (pc = "done" /\ FirstMulti # 0) =>
          /\ OwnName(FirstMulti) =>
                IF GreedyList(FirstMulti) # Empty
                THEN Get(result.args, positionals[FirstMulti].name, None)
                        = PyList(GreedyList(FirstMulti))
                ELSE positionals[FirstMulti].name \notin DOMAIN result.args
          /\ \A p \in 1..(FirstMulti - 1) :
                (OwnName(p) /\ p <= Len(BareReached)) =>
                    Get(result.args, positionals[p].name, None)
                        = Convert(args[BareReached[p] + 1], positionals[p].type).val

\* parse returned with one bare token in the first positional and the two
\* after it, in input order, in the multi-valued one
C12_Witness ==
    /\ pc = "done"
    /\ Len(positionals) = 2
    /\ FirstMulti = 2
    /\ args = <<ValX, ValX, ValOne>>
    /\ result.args[positionals[1].name] = PyStr(ValX)
    /\ result.args[positionals[2].name] = PyList(<<PyStr(ValX), PyStr(ValOne)>>)
    /\ result.remaining = Empty

----------------------------------------------------------------------------
(* C13 *)

\* the raw string resolved as the value of the flag at the scan position:
\* the inline value, else the next token unless nargs "?" yields the default
RawValueHere ==
    IF FlagHere = 0 \/ arguments[FlagHere].action \in NoValueActions THEN NoValue
    ELSE IF InlineHere.some THEN InlineHere
    ELSE IF i + 2 > Len(args) THEN NoValue
    ELSE IF arguments[FlagHere].nargs = <<"?">> /\ args[i + 2][1] = "-" THEN NoValue
    ELSE Inline(args[i + 2])

\* the scan is at a malformed number: the raw value of an int flag, or a
\* bare token for an int positional
MalformedHere ==
    /\ pc = "scan"
    /\ \/ /\ RawValueHere.some
          /\ arguments[FlagHere].type = "int"
          /\ ~IntWellFormed(RawValueHere.v)
       \/ /\ IsBare(args[i + 1])
          /\ pos_idx < Len(positionals)
          /\ positionals[pos_idx + 1].type = "int"
          /\ ~IntWellFormed(args[i + 1])

\* the error kinds of the parser's own family
ParserErrors ==
    {"UnknownArgument", "MissingValue", "ConversionError", "InvalidChoice",
     "RequiredArgument"}

\* C13: a raw value that is no well-formed number, resolved for an int flag
\* or positional, makes parse fail with ConversionError, an error of the
\* parser's own family, and no result is returned.
C13_ConversionError ==
    MalformedHere =>
        LET step == ParseStep(arguments, positionals, args, Cur)
        IN /\ step.pc = "error"
           /\ step.err = "ConversionError"
           /\ step.err \in ParserErrors

\* what holds instead: parse ends there with the ValueError of int(), which
\* is no ArgError
C13_RaisesValueError ==
    MalformedHere =>
        LET step == ParseStep(arguments, positionals, args, Cur)
        IN /\ step.pc = "error"
           /\ step.err = "ValueError"
           /\ step.err \notin ParserErrors

----------------------------------------------------------------------------
(* C14 *)

\* the bare tokens the scan dispatched when no positional slot remained
ExcessBare ==
    IF FirstMulti # 0 THEN Empty
    ELSE [e \in 1..(Len(BareReached) - Len(positionals)) |->
             args[BareReached[e + Len(positionals)] + 1]]

\* the scan was left at a separator: `break` leaves i at its index
LeftAtSeparator == pc \in {"flush", "help", "validate", "done", "help_exit"}
                   /\ i < Len(args)

\* the tokens after the separator the scan was left at
AfterSeparator ==
    IF LeftAtSeparator THEN SubSeq(args, i + 2, Len(args)) ELSE Empty

\* C14: in the returned result `remaining` is the bare tokens scanned when
\* no positional slot remained, in input order, followed by the tokens after
\* the "--" if the scan was left at one: no excess bare token is lost.
C14_ResidualTokens ==
    pc = "done" => result.remaining = ExcessBare \o AfterSeparator

\* what holds instead: the excess bare tokens are in `remaining` when the
\* scan ends without a separator, and only the tokens after it otherwise
C14_ResidualOrSeparator ==
    pc = "done" =>
        result.remaining = IF LeftAtSeparator THEN AfterSeparator ELSE ExcessBare

----------------------------------------------------------------------------
(* C15 *)

\* the scan is at a cluster character that is not the cluster's last and
\* resolves to a flag with action store or append
ValueShortNotLast ==
    /\ pc = "scan"
    /\ IsShort(args[i + 1])
    /\ j + 2 < Len(args[i + 1])
    /\ FindArgShort(arguments, args[i + 1][j + 2]) # 0
    /\ arguments[FindArgShort(arguments, args[i + 1][j + 2])].action
          \in {"store", "append"}

\* C15: a cluster character that resolves to a store or append flag and is
\* not the last of its cluster makes parse fail with the missing-value
\* error: no following token is consumed, nothing more is matched or stored
\* and no result is returned, while what the cluster's earlier no-value
\* flags stored stays as it is.
C15_ValueShortNotLast ==
    ValueShortNotLast =>
        LET step == ParseStep(arguments, positionals, args, Cur)
            fin == RunFrom(arguments, positionals, args, Cur)
        IN /\ step.pc = "error"
           /\ step.err = "MissingValue"
           /\ step.i = i
           /\ step.j = j
           /\ step.result = result
           /\ step.collected = collected
           /\ step.matched = matched
           /\ fin = step

\* parse failed with the missing-value error at the second character of a
\* cluster, after the first character's flag was stored and with a token
\* following the cluster
C15_Witness ==
    /\ pc = "error"
    /\ err = "MissingValue"
    /\ IsShort(args[i + 1])
    /\ j = 1
    /\ j + 2 < Len(args[i + 1])
    /\ i + 1 < Len(args)
    /\ Len(matched) > 0
    /\ matched[Len(matched)].at = i
    /\ result.args[Dest(arguments[matched[Len(matched)].k])] = PyBool(TRUE)

----------------------------------------------------------------------------
(* C16 *)

\* the scan is at a store or append flag with nargs "?" and no inline value,
\* as a long token or as the last character of a cluster
OptHere ==
    /\ FlagHere # 0
    /\ arguments[FlagHere].action \in {"store", "append"}
    /\ arguments[FlagHere].nargs = <<"?">>
    /\ ~InlineHere.some

\* there is no next token, or the next token starts with "-"
NoValueAhead == i + 2 > Len(args) \/ args[i + 2][1] = "-"

\* state S has `value` stored for flag k as its latest match, made at token
\* `at`: under the destination, or at the end of the destination's list
StoredAs(S, k, value, at) ==
    /\ Len(S.matched) = Len(matched) + 1
    /\ S.matched[Len(S.matched)] = [k |-> k, value |-> value, at |-> at]
    /\ IF arguments[k].action = "append" \/ arguments[k].nargs \in {<<"*">>, <<"+">>}
       THEN S.collected[Dest(arguments[k])]
               = Append(Get(collected, Dest(arguments[k]), Empty), value)
       ELSE S.result.args[Dest(arguments[k])] = value

\* the choices of flag k refuse `value`
Refuses(k, value) ==
    ChoiceFlag(arguments[k]) /\ ~InChoices(value, arguments[k].choices)

\* the step of the scan at a flag with nargs "?": with no value ahead the
\* default is the value, unconverted, and the scan goes on at the next
\* token; else the next token is converted and the scan goes on after it.
\* Parse fails there only if the value is refused by the flag's choices or
\* cannot be converted.
OptionalValue ==
    OptHere =>
        LET k == FlagHere
            step == ParseStep(arguments, positionals, args, Cur)
        IN IF NoValueAhead THEN
                /\ (step.pc = "error") = Refuses(k, arguments[k].default)
                /\ step.pc = "error" => step.err = "InvalidChoice"
                /\ step.pc # "error" =>
                      /\ StoredAs(step, k, arguments[k].default, i)
                      /\ step.i = i + 1
                      /\ step.j = 0
                      /\ step.pc = IF i + 2 > Len(args) THEN "flush" ELSE "scan"
           ELSE LET c == Convert(args[i + 2], arguments[k].type)
                IN /\ (step.pc = "error") = (~c.ok \/ Refuses(k, c.val))
                   /\ step.pc = "error" =>
                         step.err = IF c.ok THEN "InvalidChoice" ELSE "ValueError"
                   /\ step.pc # "error" =>
                         /\ StoredAs(step, k, c.val, i)
                         /\ step.i = i + 2
                         /\ step.j = 0

----------------------------------------------------------------------------
(* C17 *)

\* the scan is at a store or append flag with nargs other than "?" and no
\* inline value, as a long token or as the last character of a cluster
NeedsNextHere ==
    /\ FlagHere # 0
    /\ arguments[FlagHere].action \in {"store", "append"}
    /\ arguments[FlagHere].nargs # <<"?">>
    /\ ~InlineHere.some

----------------------------------------------------------------------------
(* C18 *)

\* a flag whose values are accumulated: action append, or store with nargs
\* * or +
MultiFlag(arg_def) ==
    \/ arg_def.action = "append"
    \/ arg_def.action = "store" /\ arg_def.nargs \in {<<"*">>, <<"+">>}

\* the values of the matches of flag k so far, in encounter order, each
\* recomputed from the argument vector
ValuesOf(k) ==
    LET at == Ascending({matched[n].at : n \in MatchesOf(k)})
    IN [e \in 1..Len(at) |-> OccurrenceValue(k, at[e])]

\* a match of a multi-valued flag appends its one converted value to the
\* scratch list of the destination and leaves the result map alone; it is
\* refused only for a missing or unconvertible value, never for the choices
AppendsToScratch ==
    (FlagHere # 0 /\ MultiFlag(arguments[FlagHere])) =>
        LET k == FlagHere
            d == Dest(arguments[k])
            step == ParseStep(arguments, positionals, args, Cur)
        IN /\ step.pc = "error" => step.err \in {"MissingValue", "ValueError"}
           /\ step.pc # "error" =>
                /\ Len(step.matched) = Len(matched) + 1
                /\ step.matched[Len(step.matched)].k = k
                /\ step.collected[d]
                     = Append(Get(collected, d, Empty), OccurrenceValue(k, i))
                /\ \A x \in DOMAIN collected \ {d} : step.collected[x] = collected[x]
                /\ step.result = result

\* what the destination of multi-valued flag k holds: its default until
\* the scan has ended, then the list of the matched values if there are
\* any, and the default if there are none
HoldsListOrDefault(k) ==
    LET d == Dest(arguments[k])
    IN IF pc \in {"scan", "flush"} \/ MatchesOf(k) = {}
       THEN result.args[d] = ClaimedDefault(arguments[k])
       ELSE result.args[d] = PyList(ValuesOf(k))

\* C18 as stated: each match of a flag with action append or nargs * or +
\* appends one converted value to a scratch list apart from the result
\* map, choices not enforced; the destination keeps its default until the
\* scan ends and then holds the list of all matched values in encounter
\* order, or still the default if the flag was never matched.  Stated of
\* the schemas without duplicate names.
C18_AsStated ==
    /\ AppendsToScratch
    /\ (pc \in {"scan", "flush", "help", "validate", "done", "help_exit"}
           /\ NoDuplicates) =>
          \A k \in FlagIdx : MultiFlag(arguments[k]) => HoldsListOrDefault(k)

\* C18 amended: ... the destination, if no other flag and no positional
\* shares it, keeps its default until the scan ends and then holds the list.
C18_MultiValuedFlag ==
    /\ AppendsToScratch
    /\ pc \in {"scan", "flush", "help", "validate", "done", "help_exit"} =>
          \A k \in FlagIdx :
              (MultiFlag(arguments[k]) /\ ~SharedDest(k)) => HoldsListOrDefault(k)

\* parse returned the list of two different values of a multi-valued flag,
\* in the order of the input
C18_Witness ==
    /\ pc = "done"
    /\ \E k \in FlagIdx :
          /\ MultiFlag(arguments[k])
          /\ ~SharedDest(k)
          /\ Cardinality(MatchesOf(k)) = 2
          /\ result.args[Dest(arguments[k])] = PyList(ValuesOf(k))
          /\ ValuesOf(k)[1] # ValuesOf(k)[2]
          /\ ValuesOf(k)[1] = PyStr(ValX)

----------------------------------------------------------------------------
(* C19 *)

\* no token of the argument vector is a bare token
NoBareTokens == \A n \in 1..Len(args) : ~IsBare(args[n])

\* some flag marked required has a null or absent value in the result map r
RequiredNullIn(r) ==
    \E k \in FlagIdx :
        arguments[k].required /\ Get(r, Dest(arguments[k]), None) = None

\* C19: parse raises the required-argument error only for a required flag
\* with a null destination, whatever tokens the positionals received, and
\* on an argv without bare tokens it ends as it does on the same flags with
\* no positional declared: it returns a result whenever the flags are
\* processed and validated without error.
C19_PositionalsOptional ==
    (InParse /\ pc \notin Terminal) =>
        LET fin == RunFrom(arguments, positionals, args, Cur)
            flagsOnly == RunFrom(arguments, Empty, args, Cur)
        IN /\ (fin.pc = "error" /\ fin.err = "RequiredArgument")
                => RequiredNullIn(fin.result.args)
           /\ pc = "validate" =>
                (fin.pc = "done") = ~RequiredNullIn(result.args)
           /\ NoBareTokens => fin = flagsOnly

\* parse returned although a positional with nargs exactly-one and one with
\* nargs one-or-more received no token
C19_Witness ==
    /\ pc = "done"
    /\ Len(args) > 0
    /\ NoBareTokens
    /\ \E p, q \in PosIdx :
          /\ positionals[p].nargs = Empty
          /\ positionals[q].nargs = Plus
          /\ positionals[p].name \notin DOMAIN result.args
          /\ positionals[q].name \notin DOMAIN result.args

====
